---- MODULE Spec2Model ----
(***************************************************************************)
(* A model of one run of a containerized Composition Function: the         *)
(* launcher hands the request to the sandboxed stage (spark.Command.Run),  *)
(* which builds a bundle, runs the external OCI runtime on it, captures    *)
(* its standard output and standard error, cleans the bundle up and writes *)
(* the response.                                                           *)
(*                                                                         *)
(* The repository holds two generations of the sandboxed stage:            *)
(*   "xfn"  src/cmd/xfn-oci/main.go:174-327  (pulls the image, deadline)   *)
(*   "fro"  src/cmd/xfn-oci/main.go:462-570  (image tarball, no deadline)  *)
(* Both are modelled; the variable variant says which one a run executes.  *)
(*                                                                         *)
(* The external runtime process (the workload), the clock and the          *)
(* goroutine of os/exec that kills the process when the context is done    *)
(* are the environment: they interleave freely with the steps of Run.      *)
(*                                                                         *)
(* Four specifications share the definitions:                              *)
(*   Spec      one run behind the start command, every workload and every  *)
(*             limit on captured output;                                   *)
(*   SpecCfg   the same program on every launcher command, capability      *)
(*             set, image name, pull policy, resource limit and network    *)
(*             policy, with two workloads;                                 *)
(*   SpecRuns  the concurrent runs of one service process, each reduced    *)
(*             to its run ID, bundler, pull, bundle directory and          *)
(*             invocation;                                                 *)
(*   SpecCopy  one call of copyChunks, which decompresses the image        *)
(*             tarball for the start command of function-runtime-oci.      *)
(***************************************************************************)
EXTENDS Integers, Sequences, FiniteSets, TLC

\* ------------------------------------------------------------------ bounds

\* Largest timeout a request carries (0 is "not set").
MaxReqTimeout == 2
\* Largest --max-stdio-bytes the model tries (0 is "unbounded").
MaxLimit == 2
\* Bytes a pipe between the workload and the invoker buffers.
PipeCap == 2
\* Writes a workload performs on its two streams together.
MaxWrites == 4

\* Concurrent runs of one service process.
NumRuns == 2

\* Distinct run IDs on offer.
NumIDs == 3

\* Longest source copyChunks is given, in bytes.
MaxSrcLen == 4

\* Largest chunk size copyChunks is given.
MaxChunk == 3

\* --------------------------------------------------------- program constants

\* The time after which the OCI runtime is killed if the request names none.
defaultTimeout == 25

errReadRequest == "cannot read request from stdin"
errUnmarshalRequest == "cannot unmarshal request data from stdin"
errNoInput == "no input provided"
errMarshalInput == "failed to marshal input to JSON"
errUnmarshalInput == "failed to unmarshal input as config"
errNewBundleStore == "cannot create OCI runtime bundle store"
errNewDigestStore == "cannot create OCI image digest store"
errParseRef == "cannot parse OCI image reference"
errParseCABundle == "Cannot parse CA bundle"
errPull == "cannot pull OCI image"
errOpenTarBall == "cannot open OCI image tarball"
errBundleFn == "cannot create OCI runtime bundle"
errMkRuntimeRootdir == "cannot make OCI runtime cache"
errMarshalRequestJSON == "failed to marshal request to JSON"
errMarshalRequest == "cannot marshal request data to stdout"
errRuntime == "OCI runtime error"
errStdoutPipe == "cannot get stdout pipe"
errStderrPipe == "cannot get stderr pipe"
errStartCommand == "cannot start command"
errReadStdout == "cannot read stdout"
errReadStderr == "cannot read stderr"
errWaitCommand == "while waiting for command"
errCleanupBundle == "cannot cleanup OCI runtime bundle"
errWriteResponse == "cannot write response data to stdout"
errParseImage == "cannot parse image reference"
errResolveKeychain == "cannot resolve default registry authentication keychain"
errAuthCfg == "cannot get default registry authentication credentials"
errParseInput == "cannot parse input"
errUnmarshalConfig == "cannot unmarshal input to RunFunctionRequestConfig"
errMarshalRequestInput == "cannot marshal Input to JSON"
errListen == "cannot listen for gRPC connections"
errReadRunFunctionRequest == "cannot read RunFunctionRequest"
errDecompressTarball == "cannot decompress image tarball"
errCPULimit == "cannot limit container CPU"
errMemoryLimit == "cannot limit container memory"
errHostNetwork == "cannot configure container to run in host network namespace"
errRunFunction == "cannot run function"

VARIABLES
  variant,        \* "xfn" | "fro": which generation of spark.Command.Run runs
  maxStdioBytes,  \* Command.MaxStdioBytes
  pc,             \* the statement of the run that executes next
  err,            \* the error Run returned (NoErr: nil)
  failedStage,    \* the step whose failure made Run return ("" if none)
  stages,         \* the steps begun so far, in order
  cancelled,      \* the deferred cancel() of the run's context has run
  hasDeadline,    \* the run's context carries a deadline
  deadline,       \* that deadline
  reqTimeout,     \* the timeout the request's configuration names (0: none)
  now,            \* time elapsed since the context was created
  expiredInPull,  \* the deadline passed while p.Image was in flight
  bundler,        \* the bundling strategy chosen: "" | "uncompressed" | "overlay"
  bundleCreated,  \* s.Bundle returned a bundle
  bundleExists,   \* the bundle directory is on disk
  cleanupCalls,   \* calls of b.Cleanup()
  procState,      \* "none" | "running" | "exited" | "killed"
  exitCode,       \* exit status of a process that exited by itself
  killedBy,       \* "" | "deadline" | "cancel": why the process was killed
  script,         \* the writes the workload still performs, in order
  outPipe,        \* bytes buffered in the stdout pipe
  errPipe,        \* bytes buffered in the stderr pipe
  outSent,        \* bytes the workload has written to stdout
  errSent,        \* bytes the workload has written to stderr
  stdout,         \* bytes captured from stdout
  stderr,         \* bytes captured from stderr
  waitRes,        \* what cmd.Wait returned: "" | "nil" | "exit" | "ctx"
  wrote,          \* os.Stdout.Write was called
  written,        \* bytes written to the sandboxed stage's own stdout
  workloads,      \* the workloads the runtime may turn out to execute
  command,        \* "run" | "start": the launcher command that serves the run
  host,           \* the launcher's process: capabilities, identity, caches
  flags,          \* the command-line flags of the launcher and of spark
  request,        \* the incoming RunFunctionRequest
  runner,         \* <<>>, or the one Runner the launcher built
  handed,         \* <<>>, or the one request handed to RunFunction
  keychainCalls,  \* lookups the launcher made in the caller's keychain
  resolvedAuth,   \* <<>>, or the credentials of the run command's cfg
  ref,            \* <<>>, or the one image reference spark parsed
  netCalls,       \* calls the puller made to the registry
  ociSpec,        \* <<>>, or the one runtime spec of the bundle
  clientOpts,     \* <<>>, or the options the image client was given
  runs,           \* the concurrent runs one service process serves
  disk,           \* the bundle directories that exist under the cache directory
  accesses,       \* which run created, ran or removed which bundle directory
  imageCache,     \* the digests whose content the image cache holds
  downloads,      \* the downloads of image content completed, by any run
  copy            \* the call of copyChunks that decompresses the image tarball

inputVars == <<workloads, command, host, flags, request>>
launchVars == <<runner, handed, keychainCalls, resolvedAuth>>
imageVars == <<ref, netCalls, ociSpec, clientOpts>>
serviceVars == <<runs, disk, accesses, imageCache, downloads>>
copyVars == <<copy>>
cfgVars ==
  <<variant, maxStdioBytes, inputVars, launchVars, imageVars, serviceVars, copyVars>>
ctlVars == <<pc, err, failedStage, stages, cancelled>>
ctxVars == <<hasDeadline, deadline, reqTimeout, now, expiredInPull>>
bundleVars == <<bundler, bundleCreated, bundleExists, cleanupCalls>>
procVars == <<procState, exitCode, killedBy, script, outPipe, errPipe, outSent, errSent>>
ioVars == <<stdout, stderr, waitRes, wrote, written>>
vars == <<cfgVars, ctlVars, ctxVars, bundleVars, procVars, ioVars>>

\* ------------------------------------------------------------------ errors

\* An error value: the message it was wrapped with, what kind of error it
\* wraps, and the stderr bytes an *exec.ExitError carries (Stderr field in
\* xfn, the message text in fro).
MkErr(msg, kind, bytes, carries) ==
  [msg |-> msg, kind |-> kind, stderr |-> bytes, carries |-> carries]

NoErr == MkErr("", "", <<>>, FALSE)

PlainErr(msg) == MkErr(msg, "error", <<>>, FALSE)

\* ----------------------------------------------------------- pure helpers

Min(a, b) == IF a < b THEN a ELSE b

\* The first n elements of s (all of s when it is shorter).
Take(s, n) == SubSeq(s, 1, Min(n, Len(s)))

\* <<1, 2, ..., n>>: the k-th byte a workload writes to a stream is k, so a
\* captured stream that lost, repeated or reordered a byte differs from this.
Bytes(n) == [k \in 1..n |-> k]

\* The deadline of the run's context: the request's timeout, or the default
\* when the request names none.
Timeout(t) == IF t = 0 THEN defaultTimeout ELSE t

\* io.LimitReader applied whatever the limit: a limit of 0 reads nothing.
LimitReaderAlways(limit, n) == n >= limit

\* limitReaderIfNonZero(r, limit), seen from io.ReadAll: TRUE when the reader
\* reports EOF by itself after n bytes were read through it.  With limit 0
\* the pipe is read as it is; otherwise io.LimitReader stops after limit bytes.
limitReaderIfNonZero(limit, n) == limit # 0 /\ n >= limit

\* The run's context has passed its deadline.
Expired == hasDeadline /\ now >= deadline

\* The run's context is done: deadline passed, or cancel() called.
CtxDone == hasDeadline /\ (now >= deadline \/ cancelled)

\* The context handed to p.Image: the run's.
PullCtxDone == Expired

\* exec.Command in place of exec.CommandContext: no context reaches the process.
CmdCtxBackground == FALSE

\* The context handed to exec.CommandContext: the run's in xfn,
\* context.Background() in fro, which is never done.
CmdCtxDone == IF variant = "xfn" THEN CtxDone ELSE FALSE

\* The bundle created before the image is at hand.
StepsBundleBeforePull(v) ==
  IF v = "xfn"
  THEN <<"launch", "readStdin", "unmarshal", "input", "newCtx", "bundleStore",
         "digestStore", "parseRef", "caBundle", "bundle", "pull", "mkRoot",
         "marshal", "stdoutPipe", "stderrPipe", "start", "readStdout",
         "readStderr", "wait", "cleanup", "write">>
  ELSE <<"launch", "readStdin", "unmarshal", "bundleStore", "bundle",
         "tarball", "mkRoot", "marshal", "stdoutPipe", "stderrPipe", "start",
         "readStdout", "readStderr", "wait", "cleanup", "write">>

\* The statements of Run a successful run passes through, in program order.
StepsOf(v) ==
  IF v = "xfn"
  THEN <<"launch", "readStdin", "unmarshal", "input", "newCtx", "bundleStore",
         "digestStore", "parseRef", "caBundle", "pull", "bundle", "mkRoot",
         "marshal", "stdoutPipe", "stderrPipe", "start", "readStdout",
         "readStderr", "wait", "cleanup", "write">>
  ELSE <<"launch", "readStdin", "unmarshal", "bundleStore", "tarball",
         "bundle", "mkRoot", "marshal", "stdoutPipe", "stderrPipe", "start",
         "readStdout", "readStderr", "wait", "cleanup", "write">>

\* The statement that follows a step that succeeded ("done": Run returns).
AfterStep(v, step) ==
  LET steps == StepsOf(v)
      i == CHOOSE k \in 1..Len(steps) : steps[k] = step
  IN IF i = Len(steps) THEN "done" ELSE steps[i + 1]

\* The message a step's failure is wrapped with.
StageMsg(v, step) ==
  CASE step = "launch" -> errRunFunction
    [] step = "readStdin" -> errReadRequest
    [] step = "unmarshal" -> errUnmarshalRequest
    [] step = "bundleStore" -> errNewBundleStore
    [] step = "digestStore" -> errNewDigestStore
    [] step = "parseRef" -> errParseRef
    [] step = "caBundle" -> errParseCABundle
    [] step = "pull" -> errPull
    [] step = "tarball" -> errOpenTarBall
    [] step = "bundle" -> errBundleFn
    [] step = "mkRoot" -> errMkRuntimeRootdir
    [] step = "marshal" -> IF v = "xfn" THEN errMarshalRequestJSON ELSE errMarshalRequest
    [] step = "stdoutPipe" -> IF v = "xfn" THEN errRuntime ELSE errStdoutPipe
    [] step = "stderrPipe" -> IF v = "xfn" THEN errRuntime ELSE errStderrPipe
    [] step = "start" -> IF v = "xfn" THEN errRuntime ELSE errStartCommand
    [] step = "readStdout" -> IF v = "xfn" THEN errRuntime ELSE errReadStdout
    [] step = "readStderr" -> IF v = "xfn" THEN errRuntime ELSE errReadStderr
    [] step = "wait" -> IF v = "xfn" THEN errRuntime ELSE errWaitCommand
    [] step = "cleanup" -> errCleanupBundle
    [] OTHER -> errWriteResponse

\* The error of a failed cleanup returned in place of the failure before it.
ReturnedCleanupError(primary, cleanupOK) ==
  IF cleanupOK THEN primary ELSE PlainErr(errCleanupBundle)

\* What Run returns on a path that called b.Cleanup() after a step failed:
\* the cleanup's own result is discarded (_ = b.Cleanup()).
ReturnedError(primary, cleanupOK) == primary

\* ------------------------------------------------------------------ inputs

\* The runs a service process serves at the same time.
Runs == 1..NumRuns

\* The values uuid.NewString() may return.
RunIDs == 1..NumIDs

\* The default of the --map-root-uid and --map-root-gid flags.
defaultMapRootUID == 100000
defaultMapRootGID == 100000

\* The default of the --timeout flag of the run command.
defaultRunTimeout == 30

\* name.DefaultRegistry, the default of the --registry flag.
defaultRegistry == "index.docker.io"

\* An image name as it is written: the registry it names ("" when it names
\* none) and the repository.
Image(registry, repo) == [registry |-> registry, repo |-> repo]

\* The empty image name.
NoImage == Image("", "")

\* An image name that is no valid reference (upper case in the repository).
BadImage == Image("", "Fn")

\* Registry credentials.  set = FALSE is the nil *ImagePullAuth.
MkAuth(set, owner) ==
  [set |-> set,
   username |-> <<owner, "username">>,
   password |-> <<owner, "password">>,
   auth |-> <<owner, "auth">>,
   identityToken |-> <<owner, "identityToken">>,
   registryToken |-> <<owner, "registryToken">>]

NoAuth == MkAuth(FALSE, "")

\* The credentials the docker keychain of the caller holds for the registry.
KeychainAuth == MkAuth(TRUE, "keychain")

\* Credentials a request brings along.
RequestAuth == MkAuth(TRUE, "request")

\* A RunFunctionRequest: whether it has an input, and what the
\* RunFunctionRequestConfig decoded from the input says.
MkRequest(hasInput, image, auth, pullPolicy, cpu, mem, network) ==
  [hasInput |-> hasInput, image |-> image, auth |-> auth,
   pullPolicy |-> pullPolicy, cpu |-> cpu, mem |-> mem, network |-> network]

\* The values of the ImagePullPolicy and NetworkPolicy enums of the request.
PullPolicies == {"UNSPECIFIED", "IF_NOT_PRESENT", "ALWAYS", "NEVER"}

\* A number on the wire that is no value of the ImagePullPolicy enum.
UnknownPullPolicy == "UNKNOWN"
NetworkPolicies == {"UNSPECIFIED", "ISOLATED", "RUNNER"}

\* Resource limits as written: none, a quantity, and text that is no quantity.
Limits == {"", "500m", "lots"}

\* A request that names an image and nothing else.
DefaultRequest ==
  MkRequest(TRUE, Image("", "fn"), NoAuth, "UNSPECIFIED", "", "", "UNSPECIFIED")

\* A request without input: every getter returns the zero value.
EmptyRequest ==
  MkRequest(FALSE, NoImage, NoAuth, "UNSPECIFIED", "", "", "UNSPECIFIED")

\* The launcher's process: the capabilities it holds, its UID and GID, and
\* whether the digest store of its cache directory knows the image.
MkHost(capSetUID, capSetGID, cached) ==
  [capSetUID |-> capSetUID, capSetGID |-> capSetGID,
   uid |-> 1000, gid |-> 1001, cached |-> cached]

DefaultHost == MkHost(TRUE, TRUE, FALSE)

\* Flags: --map-root-uid, --map-root-gid and --default-image of the
\* launcher, spark's --resources-* flags (fro), and the --timeout of the run
\* command, at its default.
MkFlags(mapRootUID, mapRootGID, defaultImage, cpu, mem, network) ==
  [mapRootUID |-> mapRootUID, mapRootGID |-> mapRootGID,
   defaultImage |-> defaultImage, cpu |-> cpu, mem |-> mem, network |-> network,
   timeout |-> defaultRunTimeout]

DefaultFlags ==
  MkFlags(defaultMapRootUID, defaultMapRootGID, Image("", "default-fn"),
          "", "", "Isolated")

\* The workloads: every order of at most MaxWrites one-byte writes to stdout
\* ("out") and stderr ("err").
Scripts == UNION {[1..n -> {"out", "err"}] : n \in 0..MaxWrites}

\* ----------------------------------------------- the launcher's computations

\* The configured mapping used as soon as either capability is held.
RootMappingEitherCapability(h, f) ==
  LET setuid == h.capSetUID \/ h.capSetGID
  IN [setuid |-> setuid,
      rootUID |-> IF setuid THEN f.mapRootUID ELSE h.uid,
      rootGID |-> IF setuid THEN f.mapRootGID ELSE h.gid]

\* The root mapping every launcher computes first: both capabilities held,
\* the configured IDs; otherwise the caller's own.
RootMapping(h, f) ==
  LET setuid == h.capSetUID /\ h.capSetGID
  IN [setuid |-> setuid,
      rootUID |-> IF setuid THEN f.mapRootUID ELSE h.uid,
      rootGID |-> IF setuid THEN f.mapRootGID ELSE h.gid]

\* The Runner the command builds: SetUID, MapToRoot and, in xfn's start
\* command only, WithDefaultImage (which ignores the empty name).
NewRunner(v, c, h, f) ==
  LET m == RootMapping(h, f)
  IN [setuid |-> m.setuid, rootUID |-> m.rootUID, rootGID |-> m.rootGID,
      defaultImage |-> IF v = "xfn" /\ c = "start" THEN f.defaultImage ELSE NoImage]

\* name.ParseReference accepts the name.
ValidReference(img) == img # NoImage /\ img # BadImage

\* name.ParseReference(img, name.WithDefaultRegistry(registry)): a name
\* without registry gets the default one.
Normalise(img, registry) ==
  Image(IF img.registry = "" THEN registry ELSE img.registry, img.repo)

\* The keychain's credentials put in place of whatever the request has.
ResolvedConfigAuthFromKeychain(rq) == KeychainAuth

\* cfg.Spec.ImagePullConfig.Auth once the run command has resolved
\* credentials: the request's own when it has some, else the keychain's.
ResolvedConfigAuth(rq) == IF rq.auth.set THEN rq.auth ELSE KeychainAuth

\* The run command looks credentials up in authn.DefaultKeychain: only
\* under cfg.Spec.ImagePullConfig.Auth == nil.
ConsultsKeychain(rq) == ~rq.auth.set

\* The request the run command hands to RunFunction: &req.  cfg, into which
\* the credentials were resolved, is a copy decoded from req's input and is
\* not written back.
HandedRequest(rq, cfgAuth) == rq

\* A nil pointer dereference.
PanicErr ==
  MkErr("invalid memory address or nil pointer dereference", "panic", <<>>, FALSE)

\* RunFunction may fail before spark runs.
RunFunctionStarts == BOOLEAN

\* What a launcher ends with: an error or none, the runner it built, the
\* request it handed to RunFunction; and, of the run command, the lookups
\* it made in the keychain and the credentials its cfg holds in the end
\* (none and <<>> until set).
Outcome(e, r, q) ==
  [err |-> e, runner |-> r, handed |-> q, keychain |-> 0, cfgAuth |-> <<>>]

\* The launcher calls RunFunction with request q on runner r.
CallRunFunction(r, q) ==
  {Outcome(IF ok THEN NoErr ELSE PlainErr(errRunFunction), <<r>>, <<q>>) :
     ok \in RunFunctionStarts}

\* xfn's run command.
XfnRun(h, f, rq) ==
  IF ~ValidReference(f.defaultImage)
  THEN {Outcome(PlainErr(errParseImage), <<>>, <<>>)}
  ELSE {Outcome(PlainErr(errParseInput), <<>>, <<>>)}
       \cup (IF ~rq.hasInput
             THEN {Outcome(PanicErr, <<>>, <<>>)}
             ELSE {Outcome(PlainErr(errMarshalRequestInput), <<>>, <<>>),
                   Outcome(PlainErr(errUnmarshalConfig), <<>>, <<>>)}
                  \cup (IF ConsultsKeychain(rq)
                        THEN {[o EXCEPT !.keychain = 1] :
                                o \in {Outcome(PlainErr(errResolveKeychain), <<>>, <<>>),
                                       Outcome(PlainErr(errAuthCfg), <<>>, <<>>)}}
                        ELSE {})
                  \cup {[o EXCEPT !.keychain = IF ConsultsKeychain(rq) THEN 1 ELSE 0,
                                  !.cfgAuth = <<ResolvedConfigAuth(rq)>>] :
                          o \in CallRunFunction(NewRunner("xfn", "run", h, f),
                                                HandedRequest(rq, ResolvedConfigAuth(rq)))})

\* xfn's start command, serving one request.
XfnStart(h, f, rq) ==
  {Outcome(PlainErr(errListen), <<NewRunner("xfn", "start", h, f)>>, <<>>)}
  \cup CallRunFunction(NewRunner("xfn", "start", h, f), rq)

\* fro's start command, serving one request.
FroStart(h, f, rq) ==
  {Outcome(PlainErr(errDecompressTarball), <<>>, <<>>),
   Outcome(PlainErr(errListen), <<NewRunner("fro", "start", h, f)>>, <<>>)}
  \cup CallRunFunction(NewRunner("fro", "start", h, f), rq)

\* fro's run command.
FroRun(h, f, rq) ==
  {Outcome(PlainErr(errReadRunFunctionRequest), <<NewRunner("fro", "run", h, f)>>, <<>>)}
  \cup CallRunFunction(NewRunner("fro", "run", h, f), rq)

\* The outcomes of the launcher command c of generation v.
Launcher(v, c, h, f, rq) ==
  CASE v = "xfn" /\ c = "run" -> XfnRun(h, f, rq)
    [] v = "xfn" /\ c = "start" -> XfnStart(h, f, rq)
    [] v = "fro" /\ c = "run" -> FroRun(h, f, rq)
    [] OTHER -> FroStart(h, f, rq)

\* -------------------------------------------- the sandboxed stage's functions

\* The default image spark is started with: the runner's.
SparkDefaultImage(r) == r.defaultImage

\* img := conf.Spec.GetImage(); if img == "" { img = defaultImage }
SelectImage(named, default) == IF named = NoImage THEN default ELSE named

\* The case for NEVER missing from the switch.
PullPolicyWithoutNever(p) ==
  CASE p = "ALWAYS" -> "Always"
    [] OTHER -> "IfNotPresent"

\* The bundler Run uses: the overlay one where overlay.Supported(c.CacheDir),
\* else the uncompressed one.
BundlerFor(supported) == IF supported THEN "overlay" ELSE "uncompressed"

\* UNSPECIFIED missing from the last case of the switch.
PullPolicyUnspecifiedUnset(p) ==
  CASE p = "ALWAYS" -> "Always"
    [] p = "NEVER" -> "Never"
    [] p = "IF_NOT_PRESENT" -> "IfNotPresent"
    [] OTHER -> ""

\* The switch of FromImagePullConfig: the pull policy it sets on the image
\* client; "" when no case matches and the client's policy is left as it is.
PullPolicyOf(p) ==
  CASE p = "ALWAYS" -> "Always"
    [] p = "NEVER" -> "Never"
    [] p \in {"IF_NOT_PRESENT", "UNSPECIFIED"} -> "IfNotPresent"
    [] OTHER -> ""

\* conf.Spec.GetImagePullConfig(): nil (<<>>) for a configuration that sets
\* neither a pull policy nor credentials.
ImagePullConfigOf(rq) ==
  IF rq.pullPolicy = "UNSPECIFIED" /\ ~rq.auth.set
  THEN <<>>
  ELSE <<[pullPolicy |-> rq.pullPolicy, auth |-> rq.auth]>>

\* The getters of *ImagePullConfig, which accept nil.
GetPullPolicy(c) == IF c = <<>> THEN "UNSPECIFIED" ELSE c[1].pullPolicy
GetAuth(c) == IF c = <<>> THEN NoAuth ELSE c[1].auth

\* The options of an image client before any option is applied.
NoClientOptions == [pull |-> "", auth |-> <<>>]

\* FromImagePullConfig(cfg), applied to the client's options: the pull
\* policy of the switch, and the five credentials when cfg has some.
FromImagePullConfig(c) ==
  [pull |-> IF PullPolicyOf(GetPullPolicy(c)) = ""
            THEN NoClientOptions.pull
            ELSE PullPolicyOf(GetPullPolicy(c)),
   auth |-> IF GetAuth(c).set
            THEN <<[username |-> GetAuth(c).username,
                    password |-> GetAuth(c).password,
                    auth |-> GetAuth(c).auth,
                    identityToken |-> GetAuth(c).identityToken,
                    registryToken |-> GetAuth(c).registryToken]>>
            ELSE NoClientOptions.auth]

\* The policy the caching puller follows: the one its options name, or its
\* own default when they name none.
PullerPolicies(o) ==
  IF o.pull = "" THEN {"Always", "Never", "IfNotPresent"} ELSE {o.pull}

\* The caching puller goes to the registry: always under Always, for a
\* reference the digest store does not know under IfNotPresent, never
\* under Never.
UsesNetwork(policy, cached) ==
  policy = "Always" \/ (policy = "IfNotPresent" /\ ~cached)

\* The caching puller can resolve the reference at all.
Resolvable(policy, cached) == policy # "Never" \/ cached

\* A limit parses as a resource quantity.
ParsesAsQuantity(l) == l = "500m"

\* The runtime spec before any option is applied: no limits, a network
\* namespace of its own.
BaseSpec == [cpu |-> "", mem |-> "", hostNetwork |-> FALSE]

\* Both limit mutators applied whether or not a limit is set.
FromConfigLimitsAlwaysApplied(cpu, mem, runnerPolicy) ==
  IF ~ParsesAsQuantity(cpu)
  THEN [err |-> errCPULimit, spec |-> BaseSpec]
  ELSE IF ~ParsesAsQuantity(mem)
       THEN [err |-> errMemoryLimit, spec |-> [BaseSpec EXCEPT !.cpu = cpu]]
       ELSE [err |-> "",
             spec |-> [cpu |-> cpu, mem |-> mem, hostNetwork |-> runnerPolicy]]

\* The spec option of both generations: the CPU limit when there is one,
\* then the memory limit when there is one, then the host network when the
\* policy is Runner; the first mutator that fails ends the option.
FromConfig(cpu, mem, runnerPolicy) ==
  IF cpu # "" /\ ~ParsesAsQuantity(cpu)
  THEN [err |-> errCPULimit, spec |-> BaseSpec]
  ELSE IF mem # "" /\ ~ParsesAsQuantity(mem)
       THEN [err |-> errMemoryLimit, spec |-> [BaseSpec EXCEPT !.cpu = cpu]]
       ELSE [err |-> "",
             spec |-> [cpu |-> cpu, mem |-> mem, hostNetwork |-> runnerPolicy]]

\* The host network joined unless the policy is Isolated.
FromRunFunctionConfigUnlessIsolated(rq) ==
  FromConfig(rq.cpu, rq.mem, rq.network # "ISOLATED")

\* xfn: FromRunFunctionConfig(conf.Spec.GetRunFunctionConfig())
FromRunFunctionConfig(rq) == FromConfig(rq.cpu, rq.mem, rq.network = "RUNNER")

\* fro: FromResourcesConfig(&c.ResourcesConfig)
FromResourcesConfig(f) == FromConfig(f.cpu, f.mem, f.network = "Runner")

\* ------------------------------------------------------------ initial state

\* The digest the registry resolves an image name to.
DigestOf(img) == <<"sha256", img.repo>>

\* A call of copyChunks(dst, src, chunk) at its first statement.  data is
\* what src holds and end how src ends once data is read ("EOF", or "read":
\* a read error); dstFails says whether a write to dst may fail.  left is
\* what of src is still unread, buf the bytes read and not yet written, out
\* what dst has received, n the bytes copied by the io.CopyN under way,
\* and w and e what the last io.CopyN returned.
MkCopy(data, end, dstFails, chunk) ==
  [pc |-> "copyN", data |-> data, end |-> end, dstFails |-> dstFails,
   chunk |-> chunk, left |-> data, buf |-> <<>>, out |-> <<>>, n |-> 0,
   w |-> 0, e |-> "", written |-> 0, err |-> "", calls |-> 1]

\* No call of copyChunks is modelled.
IdleCopy == [MkCopy(<<>>, "EOF", FALSE, 1) EXCEPT !.pc = "idle", !.calls = 0]

\* A run of the service that has not begun.
IdleRun ==
  [pc |-> "id", id |-> 0, bundler |-> "", fetched |-> FALSE, path |-> <<>>,
   cmd |-> <<>>]

\* A run that has not begun.
InitRun ==
  /\ runs = [r \in Runs |-> IdleRun]
  /\ disk = {}
  /\ accesses = {}
  /\ imageCache = (IF host.cached THEN {DigestOf(request.image)} ELSE {})
  /\ downloads = 0
  /\ runner = <<>>
  /\ handed = <<>>
  /\ keychainCalls = 0
  /\ resolvedAuth = <<>>
  /\ ref = <<>>
  /\ netCalls = 0
  /\ ociSpec = <<>>
  /\ clientOpts = <<>>
  /\ pc = "launch"
  /\ err = NoErr
  /\ failedStage = ""
  /\ stages = <<"launch">>
  /\ cancelled = FALSE
  /\ hasDeadline = FALSE
  /\ deadline = 0
  /\ reqTimeout = 0
  /\ now = 0
  /\ expiredInPull = FALSE
  /\ bundler = ""
  /\ bundleCreated = FALSE
  /\ bundleExists = FALSE
  /\ cleanupCalls = 0
  /\ procState = "none"
  /\ exitCode = 0
  /\ killedBy = ""
  /\ script = <<>>
  /\ outPipe = <<>>
  /\ errPipe = <<>>
  /\ outSent = 0
  /\ errSent = 0
  /\ stdout = <<>>
  /\ stderr = <<>>
  /\ waitRes = ""
  /\ wrote = FALSE
  /\ written = <<>>

\* One run of either generation behind the start command, on a host with
\* both capabilities, for a request that names an image: every limit on
\* captured output, every workload.
Init ==
  /\ variant \in {"xfn", "fro"}
  /\ maxStdioBytes \in 0..MaxLimit
  /\ workloads = Scripts
  /\ command = "start"
  /\ host = DefaultHost
  /\ flags = DefaultFlags
  /\ request = DefaultRequest
  /\ copy = IdleCopy
  /\ InitRun

\* The workloads of the runs that explore the launchers and the
\* configurations: a silent one, and one that writes to both streams.
FewScripts == {<<>>, <<"out", "err">>}

\* Every launcher command of both generations, every combination of the two
\* capabilities, default and non-default root mappings, with and without a
\* default image, the default --timeout and a short one, for a request
\* without input, one that names an image, one that brings credentials and
\* one that names no image.
LauncherInputs ==
  /\ variant \in {"xfn", "fro"}
  /\ command \in {"run", "start"}
  /\ host \in {MkHost(u, g, FALSE) : u, g \in BOOLEAN}
  /\ flags \in {[MkFlags(ids[1], ids[2], d, "", "", "Isolated") EXCEPT !.timeout = t] :
                  ids \in {<<defaultMapRootUID, defaultMapRootGID>>, <<200000, 300000>>},
                  d \in {NoImage, Image("", "default-fn")},
                  t \in {1, defaultRunTimeout}}
  /\ request \in {EmptyRequest,
                   DefaultRequest,
                   [DefaultRequest EXCEPT !.auth = RequestAuth],
                   [DefaultRequest EXCEPT !.image = NoImage]}

\* xfn behind the start command: every image name and pull policy a request
\* may carry, with and without a default image, the reference known to the
\* digest store or not.
ImageInputs ==
  /\ variant = "xfn"
  /\ command = "start"
  /\ host \in {MkHost(TRUE, TRUE, c) : c \in BOOLEAN}
  /\ flags \in {DefaultFlags, [DefaultFlags EXCEPT !.defaultImage = NoImage]}
  /\ request \in {[DefaultRequest EXCEPT !.image = i, !.pullPolicy = p] :
                     i \in {NoImage, BadImage, Image("", "fn"), Image("ghcr.io", "fn")},
                     p \in PullPolicies}
                  \cup {[DefaultRequest EXCEPT !.pullPolicy = p, !.auth = RequestAuth] :
                          p \in {"ALWAYS", UnknownPullPolicy}}
                  \cup {[DefaultRequest EXCEPT !.pullPolicy = UnknownPullPolicy]}

\* Every combination of CPU limit, memory limit and network policy: in the
\* request's configuration for xfn, in spark's flags for fro.
ResourceInputs ==
  /\ command = "start"
  /\ host = DefaultHost
  /\ \/ /\ variant = "xfn"
        /\ flags = DefaultFlags
        /\ request \in {[DefaultRequest EXCEPT !.cpu = c, !.mem = m, !.network = n] :
                           c \in Limits, m \in Limits, n \in NetworkPolicies}
     \/ /\ variant = "fro"
        /\ request = DefaultRequest
        /\ flags \in {[DefaultFlags EXCEPT !.cpu = c, !.mem = m, !.network = n] :
                         c \in Limits, m \in Limits, n \in {"Runner", "Isolated"}}

\* One run for each of these inputs, with unbounded capture.
InitCfg ==
  /\ maxStdioBytes = 0
  /\ workloads = FewScripts
  /\ (LauncherInputs \/ ImageInputs \/ ResourceInputs)
  /\ copy = IdleCopy
  /\ InitRun

\* ------------------------------------------------------- control transfers

\* A step succeeded: control enters the statement after it.
Advance(step) ==
  /\ pc' = AfterStep(variant, step)
  /\ stages' = Append(stages, AfterStep(variant, step))
  /\ UNCHANGED <<err, failedStage, cancelled>>

\* Run returns e because step failed.  The deferred cancel() of xfn's context
\* runs on the way out.
Return(step, e) ==
  /\ pc' = "done"
  /\ err' = e
  /\ failedStage' = step
  /\ cancelled' = hasDeadline

\* The underlying error returned as it is, not wrapped with the step's message.
FailUnwrapped(step) ==
  /\ Return(step, PlainErr(""))
  /\ UNCHANGED stages
  /\ UNCHANGED bundleVars

\* A failed step entered again in place of returning its error.
FailRetry(step) ==
  /\ pc' = step
  /\ stages' = Append(stages, step)
  /\ UNCHANGED <<err, failedStage, cancelled>>
  /\ UNCHANGED bundleVars

\* A step failed on a path that does not clean up:
\* return errors.Wrap(err, <message>).
Fail(step) ==
  /\ Return(step, PlainErr(StageMsg(variant, step)))
  /\ UNCHANGED stages
  /\ UNCHANGED bundleVars

\* A step failed after the bundle was created: _ = b.Cleanup(), then
\* return errors.Wrap(err, <message>).  Cleanup may itself fail, and then
\* leaves the bundle directory behind.
FailWithCleanup(step, e) ==
  \E cleanupOK \in BOOLEAN :
    /\ cleanupCalls' = cleanupCalls + 1
    /\ bundleExists' = (bundleExists /\ ~cleanupOK)
    /\ UNCHANGED <<bundler, bundleCreated>>
    /\ stages' = Append(stages, "cleanup")
    /\ Return(step, ReturnedError(e, cleanupOK))

\* A step with no effect but its result, before a bundle exists.
SimpleStep(step) ==
  /\ pc = step
  /\ \E ok \in BOOLEAN :
       IF ok THEN Advance(step) /\ UNCHANGED bundleVars ELSE Fail(step)
  /\ UNCHANGED <<cfgVars, ctxVars, procVars, ioVars>>

\* A step with no effect but its result, once the bundle exists.
BundledStep(step) ==
  /\ pc = step
  /\ \E ok \in BOOLEAN :
       IF ok
       THEN Advance(step) /\ UNCHANGED bundleVars
       ELSE FailWithCleanup(step, PlainErr(StageMsg(variant, step)))
  /\ UNCHANGED <<cfgVars, ctxVars, procVars, ioVars>>

\* ------------------------------------------------------------ the launcher

\* The launcher command up to its call of RunFunction, which starts the
\* sandboxed stage (spark) in a new user namespace and hands it the request
\* on its standard input.
Launch ==
  /\ pc = "launch"
  /\ \E o \in Launcher(variant, command, host, flags, request) :
       /\ runner' = o.runner
       /\ handed' = o.handed
       /\ keychainCalls' = o.keychain
       /\ resolvedAuth' = o.cfgAuth
       /\ IF o.err = NoErr
          THEN Advance("launch")
          ELSE Return("launch", o.err) /\ UNCHANGED stages
  /\ UNCHANGED <<variant, maxStdioBytes, inputVars, imageVars, serviceVars, copyVars>>
  /\ UNCHANGED <<ctxVars, bundleVars, procVars, ioVars>>

\* The request spark reads from its standard input.
Conf == handed[1]

\* ------------------------------------------- the sandboxed stage, in order

\* pb, err := io.ReadAll(os.Stdin)
ReadRequest == SimpleStep("readStdin")

\* proto2.Unmarshal(pb, req) in xfn, json.Unmarshal(pb, req) in fro
UnmarshalRequest == SimpleStep("unmarshal")

\* A request without input decoded as the empty configuration.
InputResultsNilAsEmpty(hasInput) == {"", errMarshalInput, errUnmarshalInput}

\* xfn: the ways the decoding of the request's input may end: a nil input is
\* rejected; any other is marshalled to JSON and unmarshalled as the
\* configuration ("": both succeed).
InputResults(hasInput) ==
  IF hasInput THEN {"", errMarshalInput, errUnmarshalInput} ELSE {errNoInput}

\* xfn: the input of the request is decoded into the run's configuration.
GetInput ==
  /\ pc = "input"
  /\ \E msg \in InputResults(Conf.hasInput) :
       IF msg = ""
       THEN Advance("input")
       ELSE Return("input", PlainErr(msg)) /\ UNCHANGED stages
  /\ UNCHANGED <<cfgVars, ctxVars, bundleVars, procVars, ioVars>>

\* xfn: t := conf...GetTimeout(); if t == 0 { t = defaultTimeout };
\* ctx, cancel := context.WithTimeout(context.Background(), t)
NewContext ==
  /\ pc = "newCtx"
  /\ \E t \in 0..MaxReqTimeout :
       /\ reqTimeout' = t
       /\ deadline' = Timeout(t)
  /\ hasDeadline' = TRUE
  /\ now' = 0
  /\ Advance("newCtx")
  /\ UNCHANGED <<cfgVars, expiredInPull, bundleVars, procVars, ioVars>>

\* The uncompressed bundler, or the overlay bundler where overlay.Supported;
\* only overlay.NewCachingBundler can fail.
NewBundleStore ==
  /\ pc = "bundleStore"
  /\ \E supported \in BOOLEAN, ok \in BOOLEAN :
       /\ ~supported => ok
       /\ IF ok
          THEN /\ bundler' = BundlerFor(supported)
               /\ UNCHANGED <<bundleCreated, bundleExists, cleanupCalls>>
               /\ Advance("bundleStore")
          ELSE Fail("bundleStore")
  /\ UNCHANGED <<cfgVars, ctxVars, procVars, ioVars>>

\* xfn: h, err := store.NewDigest(c.CacheDir)
NewDigestStore == SimpleStep("digestStore")

\* xfn: name.ParseReference(img, name.WithDefaultRegistry(registry))
ParseReference ==
  /\ pc = "parseRef"
  /\ LET img == SelectImage(Conf.image, SparkDefaultImage(runner[1]))
     IN IF ValidReference(img)
        THEN /\ ref' = <<Normalise(img, defaultRegistry)>>
             /\ Advance("parseRef")
             /\ UNCHANGED bundleVars
        ELSE Fail("parseRef") /\ UNCHANGED ref
  /\ UNCHANGED <<variant, maxStdioBytes, inputVars, launchVars, netCalls, ociSpec>>
  /\ UNCHANGED clientOpts
  /\ UNCHANGED <<serviceVars, copyVars>>
  /\ UNCHANGED <<ctxVars, procVars, ioVars>>

\* xfn: oci.ParseCertificatesFromPath(c.CABundlePath), when a path is set
ParseCABundle == SimpleStep("caBundle")

\* The results p.Image(ctx, r, opts...) may give: a puller honours its
\* context, so once the context is done the pull fails.
ImageResults(ctxDone) == IF ctxDone THEN {FALSE} ELSE BOOLEAN

\* xfn: image, err := p.Image(ctx, r, opts...) returns.  The call is in flight
\* from the moment control enters this statement.
Pull ==
  /\ pc = "pull"
  /\ LET opts == FromImagePullConfig(ImagePullConfigOf(Conf))
     IN /\ clientOpts' = <<opts>>
        /\ \E policy \in PullerPolicies(opts) :
             /\ netCalls' = netCalls + (IF UsesNetwork(policy, host.cached) THEN 1 ELSE 0)
             /\ \E ok \in ImageResults(PullCtxDone) :
                  /\ ok => Resolvable(policy, host.cached)
                  /\ IF ok
                     THEN Advance("pull") /\ UNCHANGED bundleVars
                     ELSE IF Resolvable(policy, host.cached)
                          THEN Fail("pull")
                          ELSE /\ Return("pull", MkErr(errPull, "resolution", <<>>, FALSE))
                               /\ UNCHANGED stages
                               /\ UNCHANGED bundleVars
  /\ UNCHANGED <<variant, maxStdioBytes, inputVars, launchVars, ref, ociSpec>>
  /\ UNCHANGED <<serviceVars, copyVars>>
  /\ UNCHANGED <<ctxVars, procVars, ioVars>>

\* fro: img, err := tarball.ImageFromPath(args.ImageTarBall, nil)
OpenTarBall == SimpleStep("tarball")

\* The results s.Bundle may give: it applies the spec option to the spec it
\* writes, and fails when the option fails.
BundleResults(optErr) == IF optErr = "" THEN BOOLEAN ELSE {FALSE}

\* b, err := s.Bundle(ctx, image, runID, <spec option>).  The failure wraps
\* its cause: the option's error, when that is what failed.
Bundle ==
  /\ pc = "bundle"
  /\ LET opt == IF variant = "xfn"
                THEN FromRunFunctionConfig(Conf)
                ELSE FromResourcesConfig(flags)
     IN \E ok \in BundleResults(opt.err) :
          IF ok
          THEN /\ bundleCreated' = TRUE
               /\ bundleExists' = TRUE
               /\ ociSpec' = <<opt.spec>>
               /\ UNCHANGED <<bundler, cleanupCalls>>
               /\ Advance("bundle")
          ELSE /\ Return("bundle",
                         MkErr(errBundleFn,
                               IF opt.err = "" THEN "error" ELSE opt.err,
                               <<>>, FALSE))
               /\ UNCHANGED <<stages, ociSpec>>
               /\ UNCHANGED bundleVars
  /\ UNCHANGED <<variant, maxStdioBytes, inputVars, launchVars, ref, netCalls>>
  /\ UNCHANGED clientOpts
  /\ UNCHANGED <<serviceVars, copyVars>>
  /\ UNCHANGED <<ctxVars, procVars, ioVars>>

\* os.MkdirAll(root, 0700)
MkRuntimeRoot == BundledStep("mkRoot")

\* The request is marshalled for the runtime's stdin.  xfn cleans the bundle
\* up when this fails; fro returns at once.
MarshalRequest ==
  /\ pc = "marshal"
  /\ \E ok \in BOOLEAN :
       IF ok
       THEN Advance("marshal") /\ UNCHANGED bundleVars
       ELSE IF variant = "xfn"
            THEN FailWithCleanup("marshal", PlainErr(StageMsg(variant, "marshal")))
            ELSE Fail("marshal")
  /\ UNCHANGED <<cfgVars, ctxVars, procVars, ioVars>>

\* stdoutPipe, err := cmd.StdoutPipe()
StdoutPipe == BundledStep("stdoutPipe")

\* stderrPipe, err := cmd.StderrPipe()
StderrPipe == BundledStep("stderrPipe")

\* ------------------------------------------------- the runtime invocation

\* cmd.Start().  A command whose context is already done is not started:
\* Start returns the context's error.
Start ==
  /\ pc = "start"
  /\ \E ok \in (IF CmdCtxDone THEN {FALSE} ELSE BOOLEAN) :
       IF ok
       THEN /\ \E s \in workloads : script' = s
            /\ procState' = "running"
            /\ UNCHANGED <<exitCode, killedBy, outPipe, errPipe, outSent, errSent>>
            /\ Advance("start")
            /\ UNCHANGED bundleVars
       ELSE /\ FailWithCleanup("start", PlainErr(StageMsg(variant, "start")))
            /\ UNCHANGED procVars
  /\ UNCHANGED <<cfgVars, ctxVars, ioVars>>

\* io.ReadAll(limitReaderIfNonZero(stdoutPipe, c.MaxStdioBytes)) takes the
\* next byte of the pipe.
ReadStdoutByte ==
  /\ pc = "readStdout"
  /\ ~limitReaderIfNonZero(maxStdioBytes, Len(stdout))
  /\ outPipe # <<>>
  /\ stdout' = Append(stdout, Head(outPipe))
  /\ outPipe' = Tail(outPipe)
  /\ UNCHANGED <<cfgVars, ctlVars, ctxVars, bundleVars, stderr, waitRes, wrote, written>>
  /\ UNCHANGED <<procState, exitCode, killedBy, script, errPipe, outSent, errSent>>

\* The read of stdout ends: the limit is reached, or the pipe is drained and
\* its write end is closed because the process is gone.
ReadStdoutEOF ==
  /\ pc = "readStdout"
  /\ \/ limitReaderIfNonZero(maxStdioBytes, Len(stdout))
     \/ outPipe = <<>> /\ procState \in {"exited", "killed"}
  /\ Advance("readStdout")
  /\ UNCHANGED <<cfgVars, ctxVars, bundleVars, procVars, ioVars>>

\* The read of stdout fails: _ = b.Cleanup(); return.
ReadStdoutFail ==
  /\ pc = "readStdout"
  /\ FailWithCleanup("readStdout", PlainErr(StageMsg(variant, "readStdout")))
  /\ UNCHANGED <<cfgVars, ctxVars, procVars, ioVars>>

\* io.ReadAll(limitReaderIfNonZero(stderrPipe, c.MaxStdioBytes)) takes the
\* next byte of the pipe.
ReadStderrByte ==
  /\ pc = "readStderr"
  /\ ~limitReaderIfNonZero(maxStdioBytes, Len(stderr))
  /\ errPipe # <<>>
  /\ stderr' = Append(stderr, Head(errPipe))
  /\ errPipe' = Tail(errPipe)
  /\ UNCHANGED <<cfgVars, ctlVars, ctxVars, bundleVars, stdout, waitRes, wrote, written>>
  /\ UNCHANGED <<procState, exitCode, killedBy, script, outPipe, outSent, errSent>>

\* The read of stderr ends.
ReadStderrEOF ==
  /\ pc = "readStderr"
  /\ \/ limitReaderIfNonZero(maxStdioBytes, Len(stderr))
     \/ errPipe = <<>> /\ procState \in {"exited", "killed"}
  /\ Advance("readStderr")
  /\ UNCHANGED <<cfgVars, ctxVars, bundleVars, procVars, ioVars>>

\* The read of stderr fails: _ = b.Cleanup(); return.
ReadStderrFail ==
  /\ pc = "readStderr"
  /\ FailWithCleanup("readStderr", PlainErr(StageMsg(variant, "readStderr")))
  /\ UNCHANGED <<cfgVars, ctxVars, procVars, ioVars>>

\* The exit status ignored: Wait never reports a failure.
WaitResultsIgnoringStatus(state, code, ctxDone) == {"nil"}

\* What cmd.Wait() may return for a process that is gone: an *exec.ExitError
\* ("exit") for a killed process or a non-zero status; nil for status zero,
\* or the context's error ("ctx") when the context was done before the
\* process was reaped.
WaitResults(state, code, ctxDone) ==
  IF state = "killed" \/ code # 0
  THEN {"exit"}
  ELSE IF ctxDone THEN {"nil", "ctx"} ELSE {"nil"}

\* The captured stderr dropped from the error.
WaitErrorWithoutStderr(v, kind, bytes) ==
  MkErr(StageMsg(v, "wait"), kind, <<>>, FALSE)

\* The error Run returns when cmd.Wait() failed.  An *exec.ExitError carries
\* the captured stderr: in its Stderr field (xfn), in the message (fro).
WaitError(v, kind, bytes) ==
  IF kind = "exit"
  THEN MkErr(StageMsg(v, "wait"), kind, bytes, TRUE)
  ELSE MkErr(StageMsg(v, "wait"), kind, <<>>, FALSE)

\* cmd.Wait() returns once the process is gone.
Wait ==
  /\ pc = "wait"
  /\ procState \in {"exited", "killed"}
  /\ \E r \in WaitResults(procState, exitCode, CmdCtxDone) :
       /\ waitRes' = r
       /\ IF r = "nil"
          THEN Advance("wait") /\ UNCHANGED bundleVars
          ELSE FailWithCleanup("wait", WaitError(variant, r, stderr))
  /\ UNCHANGED <<cfgVars, ctxVars, procVars, stdout, stderr, wrote, written>>

\* if err := b.Cleanup(); err != nil { return errors.Wrap(err, errCleanupBundle) }
Cleanup ==
  /\ pc = "cleanup"
  /\ cleanupCalls' = cleanupCalls + 1
  /\ \E ok \in BOOLEAN :
       /\ bundleExists' = (bundleExists /\ ~ok)
       /\ IF ok
          THEN Advance("cleanup")
          ELSE Return("cleanup", PlainErr(StageMsg(variant, "cleanup")))
               /\ UNCHANGED stages
  /\ UNCHANGED <<cfgVars, ctxVars, bundler, bundleCreated, procVars, ioVars>>

\* _, err = os.Stdout.Write(stdout); return errors.Wrap(err, errWriteResponse).
\* A write that fails may have written a part of the bytes.
WriteResponse ==
  /\ pc = "write"
  /\ wrote' = TRUE
  /\ \E n \in 0..Len(stdout) :
       /\ written' = Take(stdout, n)
       /\ IF n = Len(stdout)
          THEN \E ok \in BOOLEAN :
                 Return(IF ok THEN "" ELSE "write",
                        IF ok THEN NoErr ELSE PlainErr(StageMsg(variant, "write")))
          ELSE Return("write", PlainErr(StageMsg(variant, "write")))
  /\ UNCHANGED <<cfgVars, stages, ctxVars, bundleVars, procVars, stdout, stderr, waitRes>>

\* ---------------------------------------------------------- the environment

\* The workload writes its next byte to stdout; it blocks while the pipe is full.
WorkloadWriteOut ==
  /\ procState = "running"
  /\ script # <<>> /\ Head(script) = "out"
  /\ Len(outPipe) < PipeCap
  /\ outPipe' = Append(outPipe, outSent + 1)
  /\ outSent' = outSent + 1
  /\ script' = Tail(script)
  /\ UNCHANGED <<cfgVars, ctlVars, ctxVars, bundleVars, ioVars>>
  /\ UNCHANGED <<procState, exitCode, killedBy, errPipe, errSent>>

\* The workload writes its next byte to stderr; it blocks while the pipe is full.
WorkloadWriteErr ==
  /\ procState = "running"
  /\ script # <<>> /\ Head(script) = "err"
  /\ Len(errPipe) < PipeCap
  /\ errPipe' = Append(errPipe, errSent + 1)
  /\ errSent' = errSent + 1
  /\ script' = Tail(script)
  /\ UNCHANGED <<cfgVars, ctlVars, ctxVars, bundleVars, ioVars>>
  /\ UNCHANGED <<procState, exitCode, killedBy, outPipe, outSent>>

\* The workload, its writes done, exits with a status of its choice.
WorkloadExit ==
  /\ procState = "running"
  /\ script = <<>>
  /\ procState' = "exited"
  /\ \E code \in {0, 1} : exitCode' = code
  /\ UNCHANGED <<cfgVars, ctlVars, ctxVars, bundleVars, ioVars>>
  /\ UNCHANGED <<killedBy, script, outPipe, errPipe, outSent, errSent>>

\* os/exec kills a running process when the command's context is done.
Kill ==
  /\ procState = "running"
  /\ CmdCtxDone
  /\ procState' = "killed"
  /\ killedBy' = IF Expired THEN "deadline" ELSE "cancel"
  /\ UNCHANGED <<cfgVars, ctlVars, ctxVars, bundleVars, ioVars>>
  /\ UNCHANGED <<exitCode, script, outPipe, errPipe, outSent, errSent>>

\* Time passes while the run is under way.
Tick ==
  /\ hasDeadline
  /\ pc # "done"
  /\ now < deadline
  /\ now' = now + 1
  /\ expiredInPull' = (expiredInPull \/ (pc = "pull" /\ now + 1 >= deadline))
  /\ UNCHANGED <<cfgVars, ctlVars, bundleVars, procVars, ioVars>>
  /\ UNCHANGED <<hasDeadline, deadline, reqTimeout>>

\* ------------------------------------------------------------ specification

Next ==
  \/ Launch
  \/ ReadRequest
  \/ UnmarshalRequest
  \/ GetInput
  \/ NewContext
  \/ NewBundleStore
  \/ NewDigestStore
  \/ ParseReference
  \/ ParseCABundle
  \/ Pull
  \/ OpenTarBall
  \/ Bundle
  \/ MkRuntimeRoot
  \/ MarshalRequest
  \/ StdoutPipe
  \/ StderrPipe
  \/ Start
  \/ ReadStdoutByte
  \/ ReadStdoutEOF
  \/ ReadStdoutFail
  \/ ReadStderrByte
  \/ ReadStderrEOF
  \/ ReadStderrFail
  \/ Wait
  \/ Cleanup
  \/ WriteResponse
  \/ WorkloadWriteOut
  \/ WorkloadWriteErr
  \/ WorkloadExit
  \/ Kill
  \/ Tick

Spec == Init /\ [][Next]_vars

\* The same program, run on the launcher and configuration inputs.
SpecCfg == InitCfg /\ [][Next]_vars

\* --------------------------------------------- one service, several runs

\* One ID for every run of the service.
SharedRunID(used) == {1}

\* runID := uuid.NewString(): an ID no run of the service has got before.
NewRunID(used) == RunIDs \ used

\* The directory the bundler creates for a run: named by the run's ID.
BundlePath(id) == <<"bundles", id>>

\* exec.CommandContext(ctx, c.Runtime, "--root="+root, "run",
\* "--bundle="+b.Path(), runID): the bundle and the container ID the
\* runtime is invoked with.
RuntimeArgs(path, id) == [bundle |-> path, id |-> id]

\* The run IDs handed out so far.
UsedIDs == {runs[r].id : r \in {q \in Runs : runs[q].pc # "id"}}

\* Run r moves to statement next with fields changed as in run.
RunStep(r, run, next) == runs' = [runs EXCEPT ![r] = [run EXCEPT !.pc = next]]

\* The single-run variables, which a service with several runs leaves alone.
singleVars ==
  <<variant, maxStdioBytes, inputVars, launchVars, imageVars, copyVars,
    ctlVars, ctxVars, bundleVars, procVars, ioVars>>

\* runID := uuid.NewString()
RunNewID(r) ==
  /\ runs[r].pc = "id"
  /\ \E i \in NewRunID(UsedIDs) : RunStep(r, [runs[r] EXCEPT !.id = i], "store")
  /\ UNCHANGED <<disk, accesses, imageCache, downloads, singleVars>>

\* The run probes overlay.Supported(c.CacheDir) and takes its bundler;
\* only overlay.NewCachingBundler can fail.
RunNewBundleStore(r) ==
  /\ runs[r].pc = "store"
  /\ \E supported \in BOOLEAN, ok \in BOOLEAN :
       /\ ~supported => ok
       /\ IF ok
          THEN RunStep(r, [runs[r] EXCEPT !.bundler = BundlerFor(supported)],
                       IF variant = "xfn" THEN "lookup" ELSE "bundle")
          ELSE RunStep(r, runs[r], "done")
  /\ UNCHANGED <<disk, accesses, imageCache, downloads, singleVars>>

\* xfn: p := oci.NewCachingPuller(h, store.NewImage(c.CacheDir), ...), a
\* puller of the run's own over the shared cache directory, and the first
\* half of p.Image: the puller looks the reference up in the caches and
\* decides whether to go to the registry.
RunLookup(r) ==
  /\ runs[r].pc = "lookup"
  /\ LET cached == DigestOf(request.image) \in imageCache
     IN \E policy \in PullerPolicies(FromImagePullConfig(ImagePullConfigOf(request))) :
          IF ~Resolvable(policy, cached)
          THEN RunStep(r, runs[r], "done")
          ELSE RunStep(r, runs[r], IF UsesNetwork(policy, cached) THEN "fetch" ELSE "bundle")
  /\ UNCHANGED <<disk, accesses, imageCache, downloads, singleVars>>

\* xfn: the second half of p.Image: the content is downloaded from the
\* registry and written to the image cache, unless the download fails.
RunFetch(r) ==
  /\ runs[r].pc = "fetch"
  /\ \E ok \in BOOLEAN :
       IF ok
       THEN /\ downloads' = downloads + 1
            /\ imageCache' = imageCache \cup {DigestOf(request.image)}
            /\ RunStep(r, [runs[r] EXCEPT !.fetched = TRUE], "bundle")
       ELSE /\ RunStep(r, runs[r], "done")
            /\ UNCHANGED <<imageCache, downloads>>
  /\ UNCHANGED <<disk, accesses, singleVars>>

\* b, err := s.Bundle(ctx, image, runID, ...): the bundle directory of the
\* run is created.
RunBundle(r) ==
  /\ runs[r].pc = "bundle"
  /\ \E ok \in BOOLEAN :
       IF ok
       THEN /\ RunStep(r, [runs[r] EXCEPT !.path = BundlePath(runs[r].id)], "invoke")
            /\ disk' = disk \cup {BundlePath(runs[r].id)}
            /\ accesses' = accesses \cup
                 {[run |-> r, path |-> BundlePath(runs[r].id), op |-> "create"]}
       ELSE /\ RunStep(r, runs[r], "done")
            /\ UNCHANGED <<disk, accesses>>
  /\ UNCHANGED <<imageCache, downloads, singleVars>>

\* The runtime is invoked and the run waits for it.  A request that cannot
\* be marshalled ends the run before that: after a cleanup in xfn, at once
\* in fro.
RunInvoke(r) ==
  /\ runs[r].pc = "invoke"
  /\ \E marshalled \in BOOLEAN :
       IF marshalled
       THEN /\ RunStep(r, [runs[r] EXCEPT !.cmd = <<RuntimeArgs(runs[r].path, runs[r].id)>>],
                       "cleanup")
            /\ accesses' = accesses \cup
                 {[run |-> r, path |-> RuntimeArgs(runs[r].path, runs[r].id).bundle,
                   op |-> "run"]}
       ELSE /\ RunStep(r, runs[r], IF variant = "xfn" THEN "cleanup" ELSE "done")
            /\ UNCHANGED accesses
  /\ UNCHANGED <<disk, imageCache, downloads, singleVars>>

\* b.Cleanup(): the bundle directory of the run is removed, unless the
\* removal fails.
RunCleanup(r) ==
  /\ runs[r].pc = "cleanup"
  /\ \E ok \in BOOLEAN :
       disk' = IF ok THEN disk \ {runs[r].path} ELSE disk
  /\ accesses' = accesses \cup {[run |-> r, path |-> runs[r].path, op |-> "remove"]}
  /\ RunStep(r, runs[r], "done")
  /\ UNCHANGED <<imageCache, downloads, singleVars>>

\* A service process of either generation with NumRuns runs under way.
InitRuns ==
  /\ variant \in {"xfn", "fro"}
  /\ maxStdioBytes = 0
  /\ workloads = FewScripts
  /\ command = "start"
  /\ host \in {MkHost(TRUE, TRUE, c) : c \in BOOLEAN}
  /\ flags = DefaultFlags
  /\ request \in {[DefaultRequest EXCEPT !.pullPolicy = p] : p \in PullPolicies}
  /\ copy = IdleCopy
  /\ InitRun

NextRuns ==
  \E r \in Runs :
    \/ RunNewID(r)
    \/ RunNewBundleStore(r)
    \/ RunLookup(r)
    \/ RunFetch(r)
    \/ RunBundle(r)
    \/ RunInvoke(r)
    \/ RunCleanup(r)

\* The runs of one service, interleaved in every way.
SpecRuns == InitRuns /\ [][NextRuns]_vars

\* ------------------------------------ copyChunks, statement by statement

\* An EOF from io.CopyN returned like any other error.
ChunkReturnEOFAsError(e) ==
  IF e = "" THEN [done |-> FALSE, err |-> ""] ELSE [done |-> TRUE, err |-> e]

\* What copyChunks does with the error of an io.CopyN: on io.EOF it returns
\* nil, on any other error it returns the error, on nil it loops.
ChunkReturn(e) ==
  CASE e = "EOF" -> [done |-> TRUE, err |-> ""]
    [] e # "" -> [done |-> TRUE, err |-> e]
    [] OTHER -> [done |-> FALSE, err |-> ""]

\* io.CopyN returns w bytes copied and error e to copyChunks.
CopyNReturns(w, e) == copy' = [copy EXCEPT !.pc = "returned", !.w = w, !.e = e]

\* Inside io.CopyN: io.Copy reads from io.LimitReader(src, chunk), which
\* hands out at most what is left of the chunk; a read may be short.
CopyRead ==
  /\ copy.pc = "copyN"
  /\ copy.n < copy.chunk
  /\ copy.left # <<>>
  /\ \E k \in 1..Min(Len(copy.left), copy.chunk - copy.n) :
       copy' = [copy EXCEPT !.pc = "write",
                            !.buf = SubSeq(copy.left, 1, k),
                            !.left = SubSeq(copy.left, k + 1, Len(copy.left))]
  /\ UNCHANGED <<variant, maxStdioBytes, inputVars, launchVars, imageVars, serviceVars>>
  /\ UNCHANGED <<ctlVars, ctxVars, bundleVars, procVars, ioVars>>

\* Inside io.CopyN: io.Copy writes what it read to dst.  A write that fails
\* has written a part of the bytes, possibly none, and ends io.CopyN with
\* the error.
CopyWrite ==
  /\ copy.pc = "write"
  /\ \/ copy' = [copy EXCEPT !.pc = "copyN",
                              !.out = copy.out \o copy.buf,
                              !.n = copy.n + Len(copy.buf),
                              !.buf = <<>>]
     \/ /\ copy.dstFails
        /\ \E j \in 0..(Len(copy.buf) - 1) :
             copy' = [copy EXCEPT !.pc = "returned",
                                  !.out = copy.out \o SubSeq(copy.buf, 1, j),
                                  !.buf = <<>>,
                                  !.w = copy.n + j,
                                  !.e = "write"]
  /\ UNCHANGED <<variant, maxStdioBytes, inputVars, launchVars, imageVars, serviceVars>>
  /\ UNCHANGED <<ctlVars, ctxVars, bundleVars, procVars, ioVars>>

\* Inside io.CopyN: the chunk is full, the limited reader reports EOF,
\* io.Copy returns nil and io.CopyN, having written == n, returns (n, nil).
CopyChunkFull ==
  /\ copy.pc = "copyN"
  /\ copy.n = copy.chunk
  /\ CopyNReturns(copy.n, "")
  /\ UNCHANGED <<variant, maxStdioBytes, inputVars, launchVars, imageVars, serviceVars>>
  /\ UNCHANGED <<ctlVars, ctxVars, bundleVars, procVars, ioVars>>

\* Inside io.CopyN: src is at its end before the chunk is full.  At EOF
\* io.Copy returns nil and io.CopyN, having written < n, returns io.EOF; a
\* read error is returned as it is.
CopySrcEnd ==
  /\ copy.pc = "copyN"
  /\ copy.n < copy.chunk
  /\ copy.left = <<>>
  /\ CopyNReturns(copy.n, copy.end)
  /\ UNCHANGED <<variant, maxStdioBytes, inputVars, launchVars, imageVars, serviceVars>>
  /\ UNCHANGED <<ctlVars, ctxVars, bundleVars, procVars, ioVars>>

\* w, err := io.CopyN(dst, src, chunkSize) has returned: written += w, and
\* copyChunks returns or calls io.CopyN again.
CopyChunksStep ==
  /\ copy.pc = "returned"
  /\ LET r == ChunkReturn(copy.e)
     IN copy' = [copy EXCEPT !.pc = IF r.done THEN "done" ELSE "copyN",
                             !.written = copy.written + copy.w,
                             !.err = r.err,
                             !.n = 0,
                             !.calls = copy.calls + (IF r.done THEN 0 ELSE 1)]
  /\ UNCHANGED <<variant, maxStdioBytes, inputVars, launchVars, imageVars, serviceVars>>
  /\ UNCHANGED <<ctlVars, ctxVars, bundleVars, procVars, ioVars>>

\* The calls of copyChunks explored: every source of at most MaxSrcLen bytes
\* that ends at EOF or in a read error, a destination that takes every
\* write or may fail, every chunk size up to MaxChunk.
CopyInputs ==
  {MkCopy(Bytes(len), end, dstFails, chunk) :
     len \in 0..MaxSrcLen, end \in {"EOF", "read"}, dstFails \in BOOLEAN,
     chunk \in 1..MaxChunk}

\* fro's start command at its call of copyChunks.
InitCopy ==
  /\ variant = "fro"
  /\ maxStdioBytes = 0
  /\ workloads = FewScripts
  /\ command = "start"
  /\ host = DefaultHost
  /\ flags = DefaultFlags
  /\ request = DefaultRequest
  /\ copy \in CopyInputs
  /\ InitRun

NextCopy ==
  \/ CopyRead
  \/ CopyWrite
  \/ CopyChunkFull
  \/ CopySrcEnd
  \/ CopyChunksStep

\* One call of copyChunks; a call under way takes its next step.
SpecCopy == InitCopy /\ [][NextCopy]_vars /\ WF_vars(NextCopy)

\* ------------------------------------------------------------------ typing

TypeOK ==
  /\ variant \in {"xfn", "fro"}
  /\ maxStdioBytes \in 0..MaxLimit
  /\ cleanupCalls \in 0..1
  /\ procState \in {"none", "running", "exited", "killed"}
  /\ Len(outPipe) <= PipeCap /\ Len(errPipe) <= PipeCap
  /\ now <= deadline
  /\ command \in {"run", "start"}
  /\ Len(runner) <= 1 /\ Len(handed) <= 1 /\ Len(ref) <= 1 /\ Len(ociSpec) <= 1
  /\ Len(clientOpts) <= 1
  /\ keychainCalls \in 0..1 /\ Len(resolvedAuth) <= 1
  /\ netCalls \in 0..1
  /\ \A r \in Runs : runs[r].pc \in {"id", "store", "lookup", "fetch", "bundle", "invoke", "cleanup", "done"}
  /\ \A r \in Runs : runs[r].id \in {0} \cup RunIDs
  /\ downloads \in 0..NumRuns
  /\ copy.pc \in {"idle", "copyN", "write", "returned", "done"}
  /\ copy.written <= MaxSrcLen

\* ------------------------------------------------------------------ claims

\* Step name was entered by the run.
Entered(name) == \E k \in 1..Len(stages) : stages[k] = name

\* C1: in every run in which Bundle returned a bundle, b.Cleanup() has been
\* called exactly once when Run returns, whatever the exit path; it is never
\* called twice.
C1_CleanupExactlyOnce ==
  /\ cleanupCalls <= 1
  /\ (pc = "done" /\ bundleCreated) => cleanupCalls = 1

\* The invoker waits for a byte of stdout that the running workload has not
\* written yet.
InvokerBlockedOnStdout ==
  /\ pc = "readStdout"
  /\ ~limitReaderIfNonZero(maxStdioBytes, Len(stdout))
  /\ outPipe = <<>>
  /\ procState = "running"

\* The invoker waits for a byte of stderr that the running workload has not
\* written yet.
InvokerBlockedOnStderr ==
  /\ pc = "readStderr"
  /\ ~limitReaderIfNonZero(maxStdioBytes, Len(stderr))
  /\ errPipe = <<>>
  /\ procState = "running"

\* The workload's next write is to stdout, whose pipe is full.
WorkloadBlockedOnStdout ==
  /\ procState = "running"
  /\ script # <<>> /\ Head(script) = "out"
  /\ Len(outPipe) = PipeCap

\* The workload's next write is to stderr, whose pipe is full.
WorkloadBlockedOnStderr ==
  /\ procState = "running"
  /\ script # <<>> /\ Head(script) = "err"
  /\ Len(errPipe) = PipeCap

\* C2: stdout and stderr are read concurrently, so no state is reachable in
\* which the workload is blocked writing one stream while the invoker is
\* blocked reading the other.
C2_NoPipeDeadlock ==
  /\ ~(InvokerBlockedOnStdout /\ WorkloadBlockedOnStderr)
  /\ ~(InvokerBlockedOnStderr /\ WorkloadBlockedOnStdout)

\* C3: every runtime process a run started is bound by a deadline, the
\* request's timeout when it is non-zero and the default otherwise; a run
\* whose process was killed at the deadline returns an error and its bundle
\* no longer exists.
C3_ProcessBoundByDeadline ==
  /\ procState # "none" =>
       /\ hasDeadline
       /\ deadline = (IF reqTimeout # 0 THEN reqTimeout ELSE defaultTimeout)
       /\ (Expired /\ procState = "running") => ENABLED Kill
  /\ (pc = "done" /\ killedBy = "deadline") => (err # NoErr /\ ~bundleExists)

\* C4: the one deadline of a run governs the pull and the runtime invocation.
\* If it expires while the pull is in flight, the run ends there with an
\* error: no bundle is created and no process started.  If it expires while
\* the process runs, the process is killed, the run fails and Cleanup is
\* still called.
C4_DeadlineGovernsPullAndInvocation ==
  /\ expiredInPull =>
       /\ pc \in {"pull", "done"}
       /\ ~bundleCreated
       /\ procState = "none"
       /\ pc = "done" => (err # NoErr /\ failedStage = "pull")
  /\ (Expired /\ procState = "running") => ENABLED Kill
  /\ killedBy = "deadline" =>
       /\ ~wrote
       /\ pc = "done" => (err # NoErr /\ cleanupCalls = 1)

\* A process was killed at the deadline, and the run failed and cleaned up.
C4_Witness ==
  /\ pc = "done"
  /\ killedBy = "deadline"
  /\ failedStage = "wait"
  /\ cleanupCalls = 1

\* The steps after the bundle was created that end the run when they fail.
AfterBundleSteps ==
  {"mkRoot", "marshal", "stdoutPipe", "stderrPipe", "start", "readStdout",
   "readStderr", "wait"}

\* C5: a failed Cleanup never replaces a failure before it.  When a step
\* after bundle creation fails, Run returns that step's error whether or not
\* Cleanup succeeds; the cleanup error is returned only when every step before
\* it, the runtime's exit status included, succeeded.
C5_CleanupNeverHidesFailure ==
  pc = "done" =>
    /\ failedStage \in AfterBundleSteps =>
         /\ err.msg = StageMsg(variant, failedStage)
         /\ err.msg # errCleanupBundle
    /\ err.msg = errCleanupBundle =>
         /\ failedStage = "cleanup"
         /\ waitRes = "nil"
         /\ procState = "exited" /\ exitCode = 0

\* Wait failed, the Cleanup after it failed too, and Run returned Wait's error.
C5_Witness ==
  /\ pc = "done"
  /\ failedStage = "wait"
  /\ cleanupCalls = 1 /\ bundleExists
  /\ err.msg = StageMsg(variant, "wait")

\* C6: a run yields a complete response or an error, never both.  The
\* response is written only after the process exited with status zero and
\* Cleanup succeeded; on every path that returns an error from before the
\* write nothing was written; a run that returns no error wrote all of the
\* captured stdout.
C6_ResponseOrError ==
  /\ wrote =>
       /\ waitRes = "nil"
       /\ procState = "exited" /\ exitCode = 0
       /\ cleanupCalls = 1 /\ ~bundleExists
  /\ (pc = "done" /\ err # NoErr /\ failedStage # "write") =>
       (~wrote /\ written = <<>>)
  /\ (pc = "done" /\ err = NoErr) => (wrote /\ written = stdout)

\* A run that succeeded and wrote a response.
C6_Witness ==
  /\ pc = "done"
  /\ err = NoErr
  /\ written # <<>>

\* The steps entered so far, Cleanup left out.
ForwardSteps == SelectSeq(stages, LAMBDA x : x # "cleanup")

\* C7: the pipeline aborts at the first failing stage, and the error carries
\* that stage's message.  After a step failed no later step was entered (no
\* bundle after a failed pull, no process after a failed bundle); only
\* Cleanup may follow.
C7_AbortAtFirstFailure ==
  failedStage # "" =>
    /\ pc = "done"
    /\ err # NoErr
    /\ failedStage # "cleanup" => ForwardSteps[Len(ForwardSteps)] = failedStage
    /\ failedStage = "cleanup" => stages[Len(stages)] = "cleanup"
    /\ failedStage = "readStdin" => err.msg = errReadRequest
    /\ failedStage = "unmarshal" => err.msg = errUnmarshalRequest
    /\ failedStage = "input" =>
         err.msg \in {errNoInput, errMarshalInput, errUnmarshalInput}
    /\ failedStage = "bundleStore" => err.msg = errNewBundleStore
    /\ failedStage = "digestStore" => err.msg = errNewDigestStore
    /\ failedStage = "parseRef" => err.msg = errParseRef
    /\ failedStage = "pull" => err.msg = errPull
    /\ failedStage = "bundle" => err.msg = errBundleFn
    /\ failedStage = "mkRoot" => err.msg = errMkRuntimeRootdir
    /\ failedStage = "start" =>
         err.msg = (IF variant = "xfn" THEN errRuntime ELSE errStartCommand)
    /\ failedStage \in {"readStdin", "unmarshal", "input", "bundleStore",
                        "digestStore", "parseRef", "caBundle", "pull",
                        "tarball", "bundle"} =>
         (~bundleCreated /\ cleanupCalls = 0)
    /\ failedStage \notin {"readStdout", "readStderr", "wait", "cleanup", "write"} =>
         procState = "none"

\* The pull failed and the run ended there.
C7_Witness ==
  /\ pc = "done"
  /\ failedStage = "pull"
  /\ err.msg = errPull
  /\ ~bundleCreated

\* The steps that begin the five stages of the pipeline; the invocation
\* begins with "start".
PipelineSteps == {"launch", "pull", "bundle", "start", "cleanup"}

\* The pipeline stages entered so far, in order.
PipelineEntered == SelectSeq(stages, LAMBDA x : x \in PipelineSteps)

\* The place of a stage in the order launch, pull, bundle, invoke, cleanup.
RankInCode(x) ==
  CASE x = "launch" -> 1 [] x = "pull" -> 2 [] x = "bundle" -> 3
    [] x = "start" -> 4 [] OTHER -> 5

\* The place of a stage in the order pull, bundle, launch, invoke, cleanup.
RankInClaim(x) ==
  CASE x = "pull" -> 1 [] x = "bundle" -> 2 [] x = "launch" -> 3
    [] x = "start" -> 4 [] OTHER -> 5

StuckBehindTruncation ==
  \/ /\ WorkloadBlockedOnStdout
     /\ limitReaderIfNonZero(maxStdioBytes, Len(stdout))
  \/ /\ WorkloadBlockedOnStderr
     /\ limitReaderIfNonZero(maxStdioBytes, Len(stderr))

\* C9: with maxStdioBytes = 0 each stream is captured in full; with
\* maxStdioBytes = N > 0 the captured bytes of a stream are its first
\* min(N, L) bytes, L the number of bytes the workload wrote; and the
\* truncation is silent: a workload that writes more than N bytes is not
\* stopped by it, so the run neither hangs nor fails because of it.
C9_SilentTruncation ==
  /\ Entered("readStderr") =>
       stdout = Take(Bytes(outSent),
                     IF maxStdioBytes = 0 THEN outSent ELSE maxStdioBytes)
  /\ Entered("wait") =>
       stderr = Take(Bytes(errSent),
                     IF maxStdioBytes = 0 THEN errSent ELSE maxStdioBytes)
  /\ ~StuckBehindTruncation

TimesEntered(name) == Cardinality({i \in 1..Len(stages) : stages[i] = name})

\* The run succeeded: Run returned nil.
Succeeded == pc = "done" /\ err = NoErr

\* C11: a run performs the image pull, the bundle creation and the runtime
\* invocation at most once each, and a run that succeeds performs each exactly
\* once (the pull in the generation that pulls; fro opens its tarball once).
C11_NoRetry ==
  /\ \A name \in {"pull", "tarball", "bundle", "start"} : TimesEntered(name) <= 1
  /\ netCalls <= 1
  /\ Succeeded =>
       /\ TimesEntered(IF variant = "xfn" THEN "pull" ELSE "tarball") = 1
       /\ TimesEntered("bundle") = 1
       /\ TimesEntered("start") = 1
       /\ bundleCreated
       /\ procState \in {"exited", "killed"}

\* A successful run of the pulling generation.
C11_Witness ==
  /\ Succeeded
  /\ variant = "xfn"
  /\ TimesEntered("pull") = 1
  /\ procState = "exited"

\* --------------------------------------------------- C12: byte-exact stdout

\* C12: in a run that succeeds with unbounded stdio, the bytes written to the
\* sandboxed stage's own stdout are exactly the bytes the container wrote to
\* its stdout, in order, none lost and none added.
C12_StdoutByteExact ==
  (Succeeded /\ maxStdioBytes = 0) =>
    /\ wrote
    /\ written = Bytes(outSent)
    /\ written = stdout

\* A successful unbounded run whose container wrote several bytes to stdout,
\* with stderr output in between.
C12_Witness ==
  /\ Succeeded
  /\ maxStdioBytes = 0
  /\ outSent >= 2
  /\ errSent >= 1
  /\ Len(written) = outSent

\* ------------------------------------------------- C13: the root mapping

\* C13: the runner a launcher builds has setuid set exactly when the process
\* holds both CAP_SETUID and CAP_SETGID, and then maps the configured
\* MapRootUID and MapRootGID to root; with neither or only one capability it
\* has setuid unset and maps the caller's own UID and GID, whatever
\* MapRootUID and MapRootGID are configured.  No request is handed to
\* RunFunction but on such a runner.
C13_RootMappingFromProbe ==
  /\ handed # <<>> => runner # <<>>
  /\ runner # <<>> =>
       LET both == host.capSetUID /\ host.capSetGID
       IN /\ runner[1].setuid <=> both
          /\ both => /\ runner[1].rootUID = flags.mapRootUID
                     /\ runner[1].rootGID = flags.mapRootGID
          /\ ~both => /\ runner[1].rootUID = host.uid
                      /\ runner[1].rootGID = host.gid

\* A launcher that holds CAP_SETUID alone, configured with a root mapping
\* that is not the default, has handed its request to RunFunction.
C13_Witness ==
  /\ handed # <<>>
  /\ host.capSetUID /\ ~host.capSetGID
  /\ flags.mapRootUID # defaultMapRootUID
  /\ ~runner[1].setuid
  /\ runner[1].rootUID = host.uid
  /\ runner[1].rootGID = host.gid

\* ------------------------------------- C14: credentials reach the sandbox

\* C14: when the request that comes in to the run command carries no
\* credentials, the request handed to RunFunction carries the username,
\* password, auth, identity token and registry token the launcher resolved
\* from the caller's keychain.
C14_ResolvedCredentialsHanded ==
  (variant = "xfn" /\ command = "run" /\ handed # <<>> /\ ~request.auth.set) =>
    /\ handed[1].auth.set
    /\ handed[1].auth.username = KeychainAuth.username
    /\ handed[1].auth.password = KeychainAuth.password
    /\ handed[1].auth.auth = KeychainAuth.auth
    /\ handed[1].auth.identityToken = KeychainAuth.identityToken
    /\ handed[1].auth.registryToken = KeychainAuth.registryToken

\* ------------------------------------------------- C15: the image pulled

\* The reference spark pulls is the request's image when it names one and
\* the configured default image otherwise, normalised against the default
\* registry.
PulledImageIsSelected ==
  ref # <<>> =>
    /\ ref[1] = Normalise(SelectImage(request.image, flags.defaultImage),
                         defaultRegistry)
    /\ ref[1].registry # ""

\* A run for a request that names a valid image does not end with the
\* rejection of an image name: neither the launcher's (errParseImage) nor
\* spark's (errParseRef).
NamedImageNeverRejected ==
  (request.hasInput /\ ValidReference(request.image) /\ pc = "done") =>
    err.msg \notin {errParseImage, errParseRef}

\* C15: the image a run pulls is the one the request names, else the
\* configured default, normalised against the default registry; a request
\* that names an image is pulled from it whether or not a default image is
\* configured.
C15_ImageSelection ==
  /\ PulledImageIsSelected
  /\ NamedImageNeverRejected

\* ---------------------------------------------- C17: the network namespace

\* The network policy of the configuration the spec option is built from:
\* the request's in xfn, spark's flag in fro.
PolicyIsRunner ==
  IF variant = "xfn" THEN request.network = "RUNNER" ELSE flags.network = "Runner"

\* C17: the spec of a bundle shares the launcher's network namespace exactly
\* when the network policy is Runner; under Isolated, and under a policy
\* that is not set, it keeps a network namespace of its own.
C17_HostNetworkIffRunner ==
  ociSpec # <<>> => (ociSpec[1].hostNetwork <=> PolicyIsRunner)

\* A bundle whose spec shares the launcher's network namespace, built by xfn
\* for a request whose policy is Runner.
C17_Witness ==
  /\ variant = "xfn"
  /\ bundleCreated
  /\ ociSpec # <<>>
  /\ request.network = "RUNNER"
  /\ ociSpec[1].hostNetwork

\* ------------------------------------------------- C18: resource limits

\* The limits of the configuration the spec option is built from.
CPULimit == IF variant = "xfn" THEN request.cpu ELSE flags.cpu
MemoryLimit == IF variant = "xfn" THEN request.mem ELSE flags.mem

\* A limit that is set and is no quantity.
Malformed(l) == l # "" /\ ~ParsesAsQuantity(l)

\* C18: the spec of a bundle carries the CPU limit and the memory limit of
\* the configuration, and none where the configuration has none; a limit
\* error names a limit that is set; and with a malformed limit the bundle
\* creation fails with that limit's error (CPU first), no bundle exists and
\* no process is started.
C18_LimitsAppliedOrBundleFails ==
  /\ ociSpec # <<>> =>
       /\ ociSpec[1].cpu = CPULimit
       /\ ociSpec[1].mem = MemoryLimit
  /\ err.kind = errCPULimit => CPULimit # ""
  /\ err.kind = errMemoryLimit => MemoryLimit # ""
  /\ (Malformed(CPULimit) \/ Malformed(MemoryLimit)) =>
       /\ ~bundleCreated
       /\ ociSpec = <<>>
       /\ procState = "none"
       /\ ~Entered("start")
       /\ (Entered("bundle") /\ pc = "done") =>
            /\ failedStage = "bundle"
            /\ err.msg = errBundleFn
            /\ err.kind = IF Malformed(CPULimit) THEN errCPULimit ELSE errMemoryLimit

\* A run that ended in the bundle creation because its memory limit is
\* malformed, its CPU limit being a quantity.
C18_Witness ==
  /\ pc = "done"
  /\ failedStage = "bundle"
  /\ CPULimit = "500m"
  /\ Malformed(MemoryLimit)
  /\ err.kind = errMemoryLimit
  /\ procState = "none"

\* ---------------------------------------------- C20: pull policy Never

\* C20: under pull policy Never, for a reference the digest store does not
\* know, the puller makes no call to the registry and the pull fails with a
\* resolution error; the run ends there with the pull error, without a
\* bundle and without a process.
C20_NeverDoesNotPull ==
  (variant = "xfn" /\ request.pullPolicy = "NEVER" /\ ~host.cached) =>
    /\ netCalls = 0
    /\ ~Entered("bundle")
    /\ ~bundleCreated
    /\ procState = "none"
    /\ (Entered("pull") /\ pc = "done") =>
         /\ failedStage = "pull"
         /\ err.msg = errPull
         /\ err.kind = "resolution"

\* Such a run, ended in the pull.
C20_Witness ==
  /\ variant = "xfn"
  /\ request.pullPolicy = "NEVER"
  /\ ~host.cached
  /\ pc = "done"
  /\ failedStage = "pull"
  /\ err.kind = "resolution"
  /\ netCalls = 0

\* -------------------------------------------- C16: the bundling strategy

\* C16: the bundling strategy is chosen by the overlay probe before any
\* bundle is created, overlay or uncompressed, and is one and the same for
\* every run the service process serves: it is not switched between runs.
C16_StrategyFixedForProcess ==
  /\ \A r \in Runs :
       /\ runs[r].bundler \in {"", "overlay", "uncompressed"}
       /\ runs[r].path # <<>> => runs[r].bundler # ""
  /\ \A r, q \in Runs :
       (runs[r].bundler # "" /\ runs[q].bundler # "") =>
         runs[r].bundler = runs[q].bundler

\* --------------------------------------------- C19: runs are isolated

\* C19: every run has a run ID of its own; its bundle directory is the one
\* named by that ID; the runtime is invoked on that directory with that ID
\* as container ID; whatever run creates, runs or removes a bundle
\* directory, it is its own and no other run's; and a bundle stays on disk
\* from its creation until its own run cleans it up.
C19_RunsIsolated ==
  /\ \A r, q \in Runs :
       (r # q /\ runs[r].pc # "id" /\ runs[q].pc # "id") => runs[r].id # runs[q].id
  /\ \A r \in Runs :
       /\ runs[r].path # <<>> => runs[r].path = BundlePath(runs[r].id)
       /\ runs[r].cmd # <<>> =>
            /\ runs[r].cmd[1].bundle = runs[r].path
            /\ runs[r].cmd[1].id = runs[r].id
       /\ runs[r].pc \in {"invoke", "cleanup"} => runs[r].path \in disk
  /\ \A a \in accesses :
       /\ a.path = BundlePath(runs[a.run].id)
       /\ \A q \in Runs \ {a.run} : runs[q].path # a.path

\* Two runs whose bundles are on disk at the same time, both having invoked
\* the runtime, one of them cleaned up since.
C19_Witness ==
  /\ runs[1].cmd # <<>>
  /\ runs[2].cmd # <<>>
  /\ runs[1].pc = "done"
  /\ runs[2].pc = "cleanup"
  /\ runs[2].path \in disk
  /\ runs[1].path \notin disk
  /\ \E a \in accesses : a.run = 1 /\ a.op = "remove"

\* ------------------------------------------- C21: one download per digest

\* Run r has got its image from the puller.
HasImage(r) == runs[r].pc \in {"bundle", "invoke", "cleanup"} \/ runs[r].path # <<>>

\* C21: the runs of one service that pull the same digest, not in the image
\* cache when the service starts, download its content from the registry
\* exactly once between them, however their steps interleave: never twice,
\* and once as soon as one of them holds the image.  (Under the policy
\* Always every run goes to the registry by design, so the statement is
\* about IfNotPresent.)
C21_OneDownloadPerDigest ==
  (variant = "xfn" /\ ~host.cached /\ PullPolicyOf(request.pullPolicy) = "IfNotPresent") =>
    /\ downloads <= 1
    /\ (\E r \in Runs : HasImage(r)) => downloads = 1

\* ------------------------------------- C22: the run command's --timeout

\* C22: a function started through the run command runs under the deadline
\* its --timeout flag gives: the context of its runtime process carries that
\* deadline, and a process still running when that time has elapsed is killed.
C22_RunTimeoutIsDeadline ==
  (variant = "xfn" /\ command = "run" /\ procState # "none") =>
    /\ hasDeadline
    /\ deadline = flags.timeout
    /\ (procState = "running" /\ now >= flags.timeout) => ENABLED Kill

\* --------------------------------------- C23: cleanup after the process

\* C23: b.Cleanup() is never called while a runtime process the run started
\* may still be running: once Cleanup has been called in a run that started
\* a process, cmd.Wait() has returned and the process is gone (it exited, or
\* it was killed and reaped).
C23_CleanupAfterReap ==
  (cleanupCalls > 0 /\ procState # "none") =>
    /\ waitRes # ""
    /\ procState \in {"exited", "killed"}

\* ----------------------------------- C24: the run command's configuration

\* C24: the run command never dereferences a nil configuration.  For every
\* request, with or without an input, once the command is past its call of
\* RunFunction or has returned, it has either returned an error or handed
\* the request on; it has not panicked.
C24_ConfigNeverNil ==
  (variant = "xfn" /\ command = "run" /\ pc # "launch") =>
    /\ err.kind # "panic"
    /\ (failedStage = "launch" /\ err.kind = "error") \/ handed # <<>>

\* ------------------------------------ C25: the image client's options

\* The credentials set on the image client are the five of the request.
ClientAuthIsRequestAuth ==
  /\ clientOpts[1].auth[1].username = Conf.auth.username
  /\ clientOpts[1].auth[1].password = Conf.auth.password
  /\ clientOpts[1].auth[1].auth = Conf.auth.auth
  /\ clientOpts[1].auth[1].identityToken = Conf.auth.identityToken
  /\ clientOpts[1].auth[1].registryToken = Conf.auth.registryToken

\* C25: the options FromImagePullConfig gives the image client are fixed by
\* the request's image-pull configuration: ALWAYS sets the policy Always,
\* NEVER sets Never, IF_NOT_PRESENT and UNSPECIFIED set IfNotPresent, and so
\* does a nil configuration; credentials are set on the client exactly when
\* the configuration carries some, and then they are the configuration's.
C25_PullConfigMapping ==
  clientOpts # <<>> =>
    /\ Conf.pullPolicy = "ALWAYS" => clientOpts[1].pull = "Always"
    /\ Conf.pullPolicy = "NEVER" => clientOpts[1].pull = "Never"
    /\ Conf.pullPolicy \in {"IF_NOT_PRESENT", "UNSPECIFIED"} =>
         clientOpts[1].pull = "IfNotPresent"
    /\ Conf.pullPolicy \in PullPolicies =>
         clientOpts[1].pull \in {"Always", "Never", "IfNotPresent"}
    /\ ImagePullConfigOf(Conf) = <<>> =>
         (clientOpts[1].pull = "IfNotPresent" /\ clientOpts[1].auth = <<>>)
    /\ clientOpts[1].auth # <<>> <=> Conf.auth.set
    /\ clientOpts[1].auth # <<>> => ClientAuthIsRequestAuth

\* A pull under the policy Always with the credentials of the request.
C25_Witness ==
  /\ Entered("bundle")
  /\ Conf.pullPolicy = "ALWAYS"
  /\ Conf.auth = RequestAuth
  /\ clientOpts # <<>>
  /\ clientOpts[1].pull = "Always"
  /\ clientOpts[1].auth # <<>>
  /\ ClientAuthIsRequestAuth

\* ------------------------------------- C26: a request without input

\* The statements of xfn's sandboxed stage after the check of the input.
AfterInputSteps ==
  {"newCtx", "bundleStore", "digestStore", "parseRef", "caBundle", "pull",
   "bundle", "mkRoot", "marshal", "stdoutPipe", "stderrPipe", "start",
   "readStdout", "readStderr", "wait", "cleanup", "write"}

\* C26: xfn's sandboxed stage rejects a request without input before any
\* side effect: no statement after the check is entered, so there is no
\* context, no bundle store, no parsed reference, no image client, no call
\* to the registry, no bundle, no process, no cleanup and no response; and
\* the run ends in the check with the error "no input provided", whether or
\* not a default image is configured.
C26_NoInputNoSideEffect ==
  (variant = "xfn" /\ handed # <<>> /\ ~Conf.hasInput) =>
    /\ \A name \in AfterInputSteps : ~Entered(name)
    /\ ~hasDeadline
    /\ bundler = ""
    /\ ref = <<>> /\ clientOpts = <<>> /\ ociSpec = <<>>
    /\ netCalls = 0
    /\ ~bundleCreated /\ ~bundleExists /\ cleanupCalls = 0
    /\ procState = "none"
    /\ ~wrote /\ written = <<>>
    /\ (Entered("input") /\ pc = "done") =>
         (failedStage = "input" /\ err = PlainErr(errNoInput))

\* A request without input, rejected by a sandboxed stage that has a
\* default image.
C26_Witness ==
  /\ variant = "xfn"
  /\ handed # <<>>
  /\ ~Conf.hasInput
  /\ runner[1].defaultImage # NoImage
  /\ pc = "done"
  /\ failedStage = "input"
  /\ err.msg = errNoInput

\* --------------------------------- C27: the request's own credentials

\* The five fields of credentials a are those of credentials b.
SameCredentials(a, b) ==
  /\ a.set = b.set
  /\ a.username = b.username
  /\ a.password = b.password
  /\ a.auth = b.auth
  /\ a.identityToken = b.identityToken
  /\ a.registryToken = b.registryToken

\* C27: the run command looks credentials up in the default keychain only
\* when the request's image-pull configuration carries none.  When the
\* request carries credentials no lookup is made, the run does not end with
\* a keychain error, and the five fields are left as they are, in the
\* command's configuration and in the request handed to RunFunction.
C27_RequestAuthKept ==
  /\ keychainCalls > 0 => (variant = "xfn" /\ command = "run" /\ ~request.auth.set)
  /\ (variant = "xfn" /\ command = "run" /\ request.auth.set) =>
       /\ keychainCalls = 0
       /\ err.msg \notin {errResolveKeychain, errAuthCfg}
       /\ resolvedAuth # <<>> => SameCredentials(resolvedAuth[1], request.auth)
       /\ handed # <<>> => SameCredentials(handed[1].auth, request.auth)

\* The run command has handed on a request that brought its own
\* credentials, while the keychain holds others.
C27_Witness ==
  /\ variant = "xfn" /\ command = "run"
  /\ request.auth = RequestAuth
  /\ RequestAuth # KeychainAuth
  /\ handed # <<>>
  /\ resolvedAuth = <<RequestAuth>>
  /\ keychainCalls = 0
  /\ Entered("readStdin")

\* ------------------------------------------------------ C28: copyChunks

\* What a call of copyChunks has done and returned, at every moment: dst
\* holds a prefix of src, in order; no io.CopyN copies more than a chunk;
\* and once the call has returned, the count it returns is the number of
\* bytes dst received, EOF is not reported as an error, a nil error means
\* src was read to its EOF and dst holds all of it, a read error comes after
\* every byte before it was written, and a write error leaves dst short.
CopyChunksResult ==
  /\ copy.out = Take(copy.data, Len(copy.out))
  /\ copy.n <= copy.chunk
  /\ copy.calls <= (Len(copy.data) \div copy.chunk) + 1
  /\ copy.pc = "done" =>
       /\ copy.written = Len(copy.out)
       /\ copy.err \in {"", "read", "write"}
       /\ (copy.end = "EOF" /\ ~copy.dstFails) => copy.err = ""
       /\ copy.err = "" => (copy.end = "EOF" /\ copy.out = copy.data)
       /\ copy.err = "read" => (copy.end = "read" /\ copy.out = copy.data)
       /\ copy.err = "write" => (copy.dstFails /\ Len(copy.out) < Len(copy.data))

\* C28: copyChunks reads src to its end in chunks of chunkSize and does not
\* report EOF as an error: for a source of any length (zero and the exact
\* multiples of chunkSize included) the call returns, having written every
\* byte of src to dst in order, with the number of bytes written and a nil
\* error; on a read or write error it stops and returns that error with the
\* number of bytes written so far.
C28_CopyChunks == []CopyChunksResult /\ <>(copy.pc = "done")

\* A source whose length is twice the chunk size, copied in full: the third
\* io.CopyN found it at EOF, and copyChunks returned nil.
C28_Witness ==
  /\ copy.pc = "done"
  /\ copy.chunk = 2
  /\ Len(copy.data) = 4
  /\ copy.end = "EOF"
  /\ copy.calls = 3
  /\ copy.err = ""
  /\ copy.written = 4
  /\ copy.out = copy.data

====
